---- MODULE Spec2Model ----
(***************************************************************************)
(* The FNNDSC stage pipelines of this repository: hypothermia.py (four     *)
(* fan-out callback stages chained through a scheduler barrier),           *)
(* masconorm.py (four single-command stages gated by file checks) and      *)
(* bet.py / coreg.py (one single-command stage each).                      *)
(*                                                                         *)
(* The scripts import the engine (stage, fnndsc, error, crun); the engine  *)
(* steps below are modelled from the design document, the wiring, the      *)
(* predicates, the callbacks and the error tables from the scripts.        *)
(***************************************************************************)
EXTENDS Integers, Sequences, FiniteSets, TLC

VARIABLES
    script,       \* which script is running
    stageslist,   \* self._stageslist: the --stages string, one character per element
    envFS,        \* FREESURFER_HOME is set
    nSubj,        \* len(self._l_subject); subjects are 1..nSubj in list order
    subjDirs,     \* subject -> its directory exists
    found,        \* fan-out: the volumes misc.find found for the current target
    files,        \* the input/intermediate files that exist (single-command scripts)
    codeRep,      \* representation in which a Stage records its exit code
    pc,           \* "initialize", "run", "done", "exit", "crashed"
    exitKind,     \* key of the fatal error that ended the process ("" if none)
    exitStatus,   \* exit code of the process (0 until it ends)
    dirsChecked,  \* subject directories examined by initialize()
    canRun,       \* stage -> runnable flag
    b_fatalConditions, \* stage -> the fatalConditions flag it was constructed with
    callCount,    \* stage -> times the action was invoked
    exitCode,     \* stage -> recorded exit code of the action
    status,       \* stage -> state of the stage execution protocol
    cur,          \* pipeline position being processed (0-based)
    phase,        \* "select", "pre", "action", "loop", "wait", "post"
    tgt,          \* fan-out: position of the next target in lst_subj (1-based)
    child,        \* number of launched child processes that have not exited
    childExit,    \* exit code of the last child process that exited
    cwd,          \* current working directory, a path relative to the start
    str_cwd,      \* the directory a callback saved on entry
    polls,        \* barrier: count queries made in the current evaluation
    sleeps,       \* barrier: sleeps made in the current evaluation
    lastObs,      \* barrier: output of the last count query
    queryFailed,  \* barrier: the listing command of the last count query failed
    dispatched,   \* log of process launches: <<stage, target>>
    satisfied,    \* predicate bindings that have evaluated true so far
    call,         \* a predicate called on its own: function name and keyword arguments
    ret           \* what that call returned ("pending" until it returns)

vars == <<script, stageslist, envFS, nSubj, subjDirs, found, files, codeRep, pc, exitKind,
          exitStatus, dirsChecked, canRun, callCount, exitCode, status, cur,
          phase, tgt, child, childExit, cwd, str_cwd, polls, sleeps, lastObs, queryFailed,
          dispatched,
          satisfied, call, ret,
          b_fatalConditions>>

(***************************************************************************)
(* Bounds                                                                  *)
(***************************************************************************)
MaxSelLen == 3
MaxSubj == 2
MaxPolls == 5
\* the engine's exit codes for its own error kinds are not set by the scripts:
\* any of 1..MaxEngineCode
MaxEngineCode == 2
\* a predicate called on its own is given a list of at most MaxFiles paths
MaxFiles == 2

(***************************************************************************)
(* The scripts and their stage objects                                     *)
(***************************************************************************)
Scripts == {"hypothermia", "masconorm", "bet", "coreg"}

\* stage_add called for stage1 before stage0
StageAddOrder_Swapped(s) ==
    IF s \in {"hypothermia", "masconorm"} THEN <<1, 0, 2, 3>> ELSE <<0>>

\* stage_add called a second time for stage0
StageAddOrder_Twice(s) ==
    IF s \in {"hypothermia", "masconorm"} THEN <<0, 1, 2, 3>> ELSE <<0, 0>>

\* The stage objects each script adds with stage_add, in call order;
\* object k is the script's variable stage<k>.
StageAddOrder(s) ==
    CASE s = "hypothermia" -> <<0, 1, 2, 3>>
      [] s = "masconorm"   -> <<0, 1, 2, 3>>
      [] s = "bet"         -> <<0>>
      [] s = "coreg"       -> <<0>>

NStages(s) == Len(StageAddOrder(s))
StageIds(s) == {StageAddOrder(s)[i] : i \in 1..NStages(s)}

\* name= of each stage constructor
StageName(s, k) ==
    CASE s = "hypothermia" -> <<"bet", "coreg", "masconorm", "masconorm">>[k + 1]
      [] s = "masconorm"   -> <<"mask", "convert", "filter >= 0", "normalize">>[k + 1]
      [] s = "bet"         -> "bet"
      [] s = "coreg"       -> "coreg"

\* stage.Stage (callback action) or stage.Stage_crun (one shell command)
StageKind(s, k) == IF s = "hypothermia" THEN "callback" ELSE "crun"

\* a stage constructed with fatalConditions = False
fatalConditions_False(s, k) == FALSE

\* fatalConditions= of each stage constructor
fatalConditions(s, k) == TRUE

(***************************************************************************)
(* Error tables (_dictErr of each script class): key -> exitCode           *)
(***************************************************************************)
dictErr_hypothermia ==
    ("subjectSpecFail" :> 10) @@ ("noFreeSurferEnv" :> 11) @@
    ("notClusterNode" :> 12) @@ ("subjectDirnotExist" :> 13) @@
    ("noB0" :> 14) @@ ("noADC" :> 15) @@ ("noASL" :> 16) @@
    ("stageExec" :> 30) @@ ("Load" :> 20)

\* 'inputFileNotFound' given the exit code of 'noFreeSurferEnv'
dictErr_bet_Clash ==
    ("inputFileNotFound" :> 11) @@ ("noFreeSurferEnv" :> 11) @@
    ("noStagePostConditions" :> 12) @@ ("subjectDirnotExist" :> 13) @@
    ("Load" :> 14)

dictErr_bet ==
    ("inputFileNotFound" :> 10) @@ ("noFreeSurferEnv" :> 11) @@
    ("noStagePostConditions" :> 12) @@ ("subjectDirnotExist" :> 13) @@
    ("Load" :> 14)

dictErr_coreg ==
    ("inputFileNotFound" :> 10) @@ ("noFreeSurferEnv" :> 11) @@
    ("noStagePostConditions" :> 12) @@ ("subjectDirnotExist" :> 13) @@
    ("Load" :> 14)

dictErr_masconorm ==
    ("inputFileNotFound" :> 10) @@ ("noFreeSurferEnv" :> 11) @@
    ("noStagePostConditions" :> 12) @@ ("subjectDirnotExist" :> 13) @@
    ("Load" :> 14)

dictErr(s) ==
    CASE s = "hypothermia" -> dictErr_hypothermia
      [] s = "masconorm"   -> dictErr_masconorm
      [] s = "bet"         -> dictErr_bet
      [] s = "coreg"       -> dictErr_coreg

(***************************************************************************)
(* Predicate bindings: def_preconditions / def_postconditions              *)
(***************************************************************************)
NoPredicate == [fn |-> "none"]

\* files= of each f_fileCheck precondition, in list order
CheckedFiles(s, k) ==
    CASE s = "bet"       -> <<"input">>
      [] s = "coreg"     -> <<"input", "ref">>
      [] s = "masconorm" -> CASE k = 0 -> <<"input", "mask">>
                              [] k = 1 -> <<"B0Mask">>
                              [] k = 2 -> <<"B0Mask_float">>
                              [] k = 3 -> <<"B0Mask_float_gte0">>

\* the file a stage's command writes with -o (only those a later stage checks)
OutputFile(s, k) ==
    IF s = "masconorm" /\ k \in 0..2
    THEN {CheckedFiles(s, k + 1)[1]}
    ELSE {}

FileNames(s) ==
    IF s = "hypothermia" THEN {}
    ELSE UNION {{CheckedFiles(s, k)[i] : i \in 1..Len(CheckedFiles(s, k))} :
                k \in StageIds(s)}

\* blockProcess= of each stage's barrier postcondition
blockProcess(k) == <<"bet", "coreg.py", "masconorm.py", "masconorm.py">>[k + 1]

def_postconditions(s, k) ==
    IF s = "hypothermia"
    THEN [fn |-> "f_blockOnScheduledJobs", obj |-> k, blockProcess |-> blockProcess(k)]
    ELSE [fn |-> "f_stageShellExitCode", obj |-> k]

\* stages chained to their own postcondition instead of the predecessor's
def_preconditions_OwnBarrier(s, k) ==
    IF s = "hypothermia"
    THEN IF k = 0 THEN NoPredicate ELSE def_postconditions(s, k)
    ELSE [fn |-> "f_fileCheck", obj |-> k, files |-> CheckedFiles(s, k)]

\* stages built without the def_preconditions call
def_preconditions_Unchained(s, k) ==
    IF s = "hypothermia" THEN NoPredicate
    ELSE [fn |-> "f_fileCheck", obj |-> k, files |-> CheckedFiles(s, k)]

def_preconditions(s, k) ==
    IF s = "hypothermia"
    THEN IF k = 0 THEN NoPredicate ELSE def_postconditions(s, k - 1)
    ELSE [fn |-> "f_fileCheck", obj |-> k, files |-> CheckedFiles(s, k)]

(***************************************************************************)
(* Python values and the predicates of the scripts                         *)
(***************************************************************************)
\* An exit code as a Python value: a str ("0") or an int (0) are different
\* values, and "0" == 0 is False.
PyStr(n) == [rep |-> "str", val |-> n]
PyInt(n) == [rep |-> "int", val |-> n]
PyNone == [rep |-> "none", val |-> 0]
PyEq(a, b) == a.rep = b.rep /\ a.val = b.val
PyRecord(rep, n) == IF rep = "str" THEN PyStr(n) ELSE PyInt(n)

RECURSIVE f_fileCheckFrom(_, _, _, _)
f_fileCheckFrom(l_file, fs, i, b_allFilesExist) ==
    IF i > Len(l_file) THEN b_allFilesExist
    ELSE f_fileCheckFrom(l_file, fs, i + 1, b_allFilesExist /\ (l_file[i] \in fs))

\* the file check with "=" in place of "&=": only the last file counts
f_fileCheck_LastOnly(l_file, fs) ==
    IF l_file = <<>> THEN TRUE ELSE l_file[Len(l_file)] \in fs

\* f_fileCheck: b_allFilesExist starts True and is and-ed with every file's existence
f_fileCheck(l_file, fs) == f_fileCheckFrom(l_file, fs, 1, TRUE)

\* the exit-code predicate without the test "if not stage"
f_stageShellExitCode_Unguarded(bound, count, code) ==
    IF count = 0 THEN "True"
    ELSE IF PyEq(code, PyStr(0)) THEN "True"
    ELSE "False"

\* the exit-code predicate with the comparison left out: any exit code passes
f_stageShellExitCode_AlwaysTrue(bound, count, code) ==
    IF ~bound THEN "fatal" ELSE "True"

\* f_stageShellExitCode: "fatal" (no stage bound), "True" or "False"
f_stageShellExitCode(bound, count, code) ==
    IF ~bound THEN "fatal"
    ELSE IF count = 0 THEN "True"
    ELSE IF PyEq(code, PyStr(0)) THEN "True"
    ELSE "False"

\* blockUntil set to another count
str_blockUntil_One == "1"

\* f_blockOnScheduledJobs: the defaults and the keyword overrides
str_blockUntil == "0"
\* stage.blockOnShellCmd returns once the count query prints blockUntil
blockOnShellCmd(output, blockUntil) == output = blockUntil
\* f_blockOnScheduledJobs ending in "return False"
f_blockOnScheduledJobs_False == FALSE

\* the value f_blockOnScheduledJobs returns after blockOnShellCmd has returned
f_blockOnScheduledJobs == TRUE

\* what one run of the count query meets: the scheduler lists n matching jobs,
\* the listing command fails (its jobs go unseen), or the answer reaches the
\* engine as text that is no number
JobCounts == {0, 1, 3}
QueryOutcomes ==
    {[mosq |-> "ok", jobs |-> n] : n \in JobCounts} \cup
    {[mosq |-> "fails", jobs |-> 1], [mosq |-> "garbled", jobs |-> 1]}

CountStr(n) == CASE n = 0 -> "0" [] n = 1 -> "1" [] n = 3 -> "3"

\* the output of 'mosq listall | grep <blockProcess> | wc -l': the number of
\* listed lines that match; when mosq fails it writes nothing to the pipe and
\* wc -l prints 0
str_blockCondition(q) ==
    CASE q.mosq = "ok"      -> CountStr(q.jobs)
      [] q.mosq = "fails"   -> "0"
      [] q.mosq = "garbled" -> "garbage"

\* outputs the count query can print: a count, or text that is no number
Observations == {str_blockCondition(q) : q \in QueryOutcomes}

(***************************************************************************)
(* Stage selection: FNNDSC_*.initialize                                    *)
(***************************************************************************)
SelChars == {"0", "1", "2", "3"}
IsDigit(c) == c \in {"0", "1", "2", "3", "4", "5", "6", "7", "8", "9"}
\* int(c) of a digit character
DigitVal(c) ==
    CASE c = "0" -> 0 [] c = "1" -> 1 [] c = "2" -> 2 [] c = "3" -> 3 [] c = "4" -> 4
      [] c = "5" -> 5 [] c = "6" -> 6 [] c = "7" -> 7 [] c = "8" -> 8 [] c = "9" -> 9

\* --stages values: digit strings, and the keyword the synopsis documents
KeywordAll == <<"a", "l", "l">>
SelStrings == UNION {[1..n -> SelChars] : n \in 0..MaxSelLen} \cup {KeywordAll}

\* pipeline.stages_canRun(b): every stage's flag is set to b
stages_canRun(s, b) == [k \in StageIds(s) |-> b]

\* pipeline.stage_get(i): the stage at pipeline position i
InRange(s, i) == i \in 0..(NStages(s) - 1)
stage_get(s, i) == StageAddOrder(s)[i + 1]

\* the loop "for index in lst_stages: stage_get(int(index)).canRun(True)":
\* int() of a non-digit and stage_get() past the last stage raise, which ends
\* the process with the flags set so far
RECURSIVE SetStagesFrom(_, _, _, _)
SetStagesFrom(s, lst_stages, i, cr) ==
    IF i > Len(lst_stages) THEN [canRun |-> cr, raised |-> FALSE]
    ELSE IF ~IsDigit(lst_stages[i]) \/ ~InRange(s, DigitVal(lst_stages[i]))
    THEN [canRun |-> cr, raised |-> TRUE]
    ELSE SetStagesFrom(s, lst_stages, i + 1,
                       [cr EXCEPT ![stage_get(s, DigitVal(lst_stages[i]))] = TRUE])

\* initialize() without the stages_canRun(False) call
SetStages_NoReset(s, lst_stages, cr0) ==
    SetStagesFrom(s, lst_stages, 1, cr0)

\* variant: only the last character of the selection string is honoured
SetStages_LastOnly(s, lst_stages, cr0) ==
    SetStagesFrom(s, IF lst_stages = <<>> THEN <<>> ELSE <<lst_stages[Len(lst_stages)]>>,
                  1, stages_canRun(s, FALSE))

SetStages(s, lst_stages, cr0) ==
    SetStagesFrom(s, lst_stages, 1, stages_canRun(s, FALSE))

(***************************************************************************)
(* Fan-out callbacks f_stage0callback .. f_stage3callback                  *)
(***************************************************************************)
\* the volumes a callback looks for with misc.find, and the error raised when
\* one is not found, in the order of the "if not l_X: error.fatal" lines
RequiredFiles(k) ==
    CASE k = 0 -> <<[file |-> "b0", err |-> "noB0"]>>
      [] k = 1 -> <<[file |-> "b0", err |-> "noB0"], [file |-> "asl", err |-> "noASL"]>>
      [] k = 2 -> <<[file |-> "b0", err |-> "noB0"], [file |-> "asl", err |-> "noASL"]>>
      [] k = 3 -> <<[file |-> "adc", err |-> "noADC"]>>

SearchedFiles(k) == {RequiredFiles(k)[i].file : i \in 1..Len(RequiredFiles(k))}

\* the first "if not l_X" that fires, "" if none does
RECURSIVE FirstMissingFrom(_, _, _)
FirstMissingFrom(k, fnd, i) ==
    IF i > Len(RequiredFiles(k)) THEN ""
    ELSE IF RequiredFiles(k)[i].file \notin fnd THEN RequiredFiles(k)[i].err
    ELSE FirstMissingFrom(k, fnd, i + 1)

\* variant: the tests report the last missing file instead of the first
FirstMissing_Last(k, fnd) ==
    LET miss == {i \in 1..Len(RequiredFiles(k)) : RequiredFiles(k)[i].file \notin fnd}
    IN  IF miss = {} THEN ""
        ELSE RequiredFiles(k)[CHOOSE i \in miss : \A j \in miss : j <= i].err

FirstMissing(k, fnd) == FirstMissingFrom(k, fnd, 1)

\* does the callback test cluster.exitCode() after the child returns
ChecksExitCode(k) == k \in {0, 1, 2}

\* an iteration that passes over every other subject
NextTarget_Skip(t) == t + 2

\* "for subj in lst_subj": the position of the subject after position t
NextTarget(t) == t + 1

\* exit codes a child process can return
ChildExitCodes == {0, 1}

\* no predicate is being called on its own (the case during a pipeline run)
NoCall == [fn |-> "none", bound |-> FALSE, files |-> <<>>]

(***************************************************************************)
(* State machine                                                           *)
(***************************************************************************)
\* The state after the script has built its pipeline and stages, before
\* initialize(). Every checked file exists at the start and EnvDeleteFile
\* removes files at any point of the run, so each file check can meet any
\* subset of the files. The constructor's default of the runnable flag is not
\* set by the scripts: all stages enabled or all disabled.
Constructed ==
    /\ script \in Scripts
    /\ stageslist \in SelStrings
    /\ envFS \in BOOLEAN
    /\ nSubj \in (IF script = "hypothermia" THEN 1..MaxSubj ELSE {0})
    /\ subjDirs \in [1..nSubj -> BOOLEAN]
    /\ found = {}
    /\ files = FileNames(script)
    /\ codeRep \in (IF script = "hypothermia" THEN {"str"} ELSE {"str", "int"})
    /\ pc = "initialize"
    /\ exitKind = ""
    /\ exitStatus = 0
    /\ dirsChecked = 0
    /\ canRun \in {stages_canRun(script, FALSE), stages_canRun(script, TRUE)}
    /\ callCount = [k \in StageIds(script) |-> 0]
    /\ exitCode = [k \in StageIds(script) |-> PyNone]
    /\ status = [k \in StageIds(script) |-> "Pending"]
    /\ cur = 0
    /\ phase = "select"
    /\ tgt = 1
    /\ child = 0
    /\ childExit = 0
    /\ cwd = <<>>
    /\ str_cwd = <<>>
    /\ polls = 0
    /\ sleeps = 0
    /\ lastObs = ""
    /\ queryFailed = FALSE
    /\ dispatched = <<>>
    /\ satisfied = {}
    /\ call = NoCall
    /\ ret = "pending"

\* the scripts construct every stage with the flag their source gives it
Init ==
    /\ Constructed
    /\ b_fatalConditions = [k \in StageIds(script) |-> fatalConditions(script, k)]

cfgVars == <<script, stageslist, envFS, nSubj, subjDirs, codeRep>>
callVars == <<call, ret>>
\* what no step of a pipeline run changes
fixedVars == <<cfgVars, b_fatalConditions, callVars>>
barrierVars == <<polls, sleeps, lastObs, queryFailed>>
fanVars == <<tgt, cwd, str_cwd, found>>
stageVars == <<canRun, callCount, exitCode, status>>
exitVars == <<pc, exitKind, exitStatus>>

\* error.fatal(obj, key): the process ends with the table's exit code
Fatal(key, code) ==
    /\ pc' = "exit"
    /\ exitKind' = key
    /\ exitStatus' = code

\* an exception nothing catches: the interpreter prints it and exits with 1
Raise(what) ==
    /\ pc' = "crashed"
    /\ exitKind' = what
    /\ exitStatus' = 1

\* the first subject whose directory does not exist, nSubj + 1 if all exist
FirstMissingDir ==
    IF \A i \in 1..nSubj : subjDirs[i] THEN nSubj + 1
    ELSE CHOOSE i \in 1..nSubj : ~subjDirs[i] /\ \A j \in 1..(i - 1) : subjDirs[j]

\* variant: the subject directories are examined before the environment
Initialize_DirsFirst ==
    /\ pc = "initialize"
    /\ LET r == SetStages(script, stageslist, canRun) IN
         /\ canRun' = r.canRun
         /\ IF r.raised
            THEN Raise("uncaught") /\ dirsChecked' = 0
            ELSE IF FirstMissingDir <= nSubj
            THEN Fatal("subjectDirnotExist", dictErr(script)["subjectDirnotExist"])
                 /\ dirsChecked' = FirstMissingDir
            ELSE IF ~envFS
            THEN Fatal("noFreeSurferEnv", dictErr(script)["noFreeSurferEnv"])
                 /\ dirsChecked' = nSubj
            ELSE /\ pc' = "run"
                 /\ dirsChecked' = nSubj
                 /\ UNCHANGED <<exitKind, exitStatus>>
    /\ UNCHANGED <<fixedVars, files, callCount, exitCode, status, cur, phase, child, childExit,
                   fanVars, barrierVars, dispatched, satisfied>>

Initialize ==
    /\ pc = "initialize"
    /\ LET r == SetStages(script, stageslist, canRun) IN
         /\ canRun' = r.canRun
         /\ IF r.raised
            THEN Raise("uncaught") /\ dirsChecked' = 0
            ELSE IF ~envFS
            THEN Fatal("noFreeSurferEnv", dictErr(script)["noFreeSurferEnv"])
                 /\ dirsChecked' = 0
            ELSE IF FirstMissingDir <= nSubj
            THEN Fatal("subjectDirnotExist", dictErr(script)["subjectDirnotExist"])
                 /\ dirsChecked' = FirstMissingDir
            ELSE /\ pc' = "run"
                 /\ dirsChecked' = nSubj
                 /\ UNCHANGED <<exitKind, exitStatus>>
    /\ UNCHANGED <<fixedVars, files, callCount, exitCode, status, cur, phase, child, childExit,
                   fanVars, barrierVars, dispatched, satisfied>>

(***************************************************************************)
(* The pipeline run: one pass over the stages in pipeline order            *)
(***************************************************************************)
\* the stage at the position being processed
Obj == stage_get(script, cur)

\* the binding under evaluation
Pred == IF phase = "pre" THEN def_preconditions(script, Obj)
        ELSE def_postconditions(script, Obj)

Evaluating == pc = "run" /\ phase \in {"pre", "post"}

\* the engine's classification of a failed predicate of a fatal stage
FailKey(pred, ph) ==
    IF pred.fn = "f_fileCheck" THEN "inputFileNotFound"
    ELSE IF ph = "pre" THEN "preconditions" ELSE "postconditions"

EngineCodes == 1..MaxEngineCode

\* step 1: a stage that is not runnable is skipped
StageSkip ==
    /\ pc = "run" /\ phase = "select" /\ InRange(script, cur)
    /\ ~canRun[Obj]
    /\ status' = [status EXCEPT ![Obj] = "Skipped"]
    /\ cur' = cur + 1
    /\ UNCHANGED <<fixedVars, files, exitVars, dirsChecked, canRun, callCount, exitCode,
                   phase, child, childExit, fanVars, barrierVars, dispatched, satisfied>>

\* step 2 begins: the preconditions of a runnable stage are evaluated
StageBegin ==
    /\ pc = "run" /\ phase = "select" /\ InRange(script, cur)
    /\ canRun[Obj]
    /\ phase' = "pre"
    /\ polls' = 0 /\ sleeps' = 0 /\ lastObs' = "" /\ queryFailed' = FALSE
    /\ UNCHANGED <<fixedVars, files, exitVars, dirsChecked, stageVars, cur, child, childExit,
                   fanVars, dispatched, satisfied>>

\* the predicate under evaluation returned True
PredTrue ==
    /\ satisfied' = IF Pred.fn = "none" THEN satisfied ELSE satisfied \cup {Pred}
    /\ IF phase = "pre"
       THEN /\ phase' = "action"
            /\ status' = [status EXCEPT ![Obj] = "Running"]
            /\ cur' = cur
       ELSE /\ phase' = "select"
            /\ status' = [status EXCEPT ![Obj] = "Complete"]
            /\ cur' = cur + 1
    /\ UNCHANGED exitVars

\* the predicate under evaluation returned False
PredFalse ==
    /\ satisfied' = satisfied
    /\ IF b_fatalConditions[Obj]
       THEN /\ status' = [status EXCEPT ![Obj] =
                            IF phase = "pre" THEN "PreconditionFailed" ELSE "Failed"]
            /\ IF FailKey(Pred, phase) \in DOMAIN dictErr(script)
               THEN Fatal(FailKey(Pred, phase), dictErr(script)[FailKey(Pred, phase)])
               ELSE \E c \in EngineCodes : Fatal(FailKey(Pred, phase), c)
            /\ UNCHANGED <<phase, cur>>
       ELSE /\ status' = [status EXCEPT ![Obj] = "SkippedWithWarning"]
            /\ phase' = "select"
            /\ cur' = cur + 1
            /\ UNCHANGED exitVars

\* a stage with no binding for this phase
EvalNoPredicate ==
    /\ Evaluating /\ Pred.fn = "none"
    /\ PredTrue
    /\ UNCHANGED <<fixedVars, files, dirsChecked, canRun, callCount, exitCode, child, childExit,
                   fanVars, barrierVars, dispatched>>

EvalFileCheck ==
    /\ Evaluating /\ Pred.fn = "f_fileCheck"
    /\ IF f_fileCheck(Pred.files, files) THEN PredTrue ELSE PredFalse
    /\ UNCHANGED <<fixedVars, files, dirsChecked, canRun, callCount, exitCode, child, childExit,
                   fanVars, barrierVars, dispatched>>

\* the exit-code predicate as if asking for the call count counted as a call
EvalExitCode_Counting ==
    /\ Evaluating /\ Pred.fn = "f_stageShellExitCode"
    /\ callCount' = [callCount EXCEPT ![Pred.obj] = @ + 1]
    /\ LET r == f_stageShellExitCode(TRUE, callCount[Pred.obj], exitCode[Pred.obj]) IN
         CASE r = "True"  -> PredTrue
           [] r = "False" -> PredFalse
           [] r = "fatal" -> /\ Fatal("noStagePostConditions",
                                      dictErr(script)["noStagePostConditions"])
                             /\ UNCHANGED <<status, phase, cur, satisfied>>
    /\ UNCHANGED <<fixedVars, files, dirsChecked, canRun, exitCode, child, childExit,
                   fanVars, barrierVars, dispatched>>

EvalExitCode ==
    /\ Evaluating /\ Pred.fn = "f_stageShellExitCode"
    /\ LET r == f_stageShellExitCode(TRUE, callCount[Pred.obj], exitCode[Pred.obj]) IN
         CASE r = "True"  -> PredTrue
           [] r = "False" -> PredFalse
           [] r = "fatal" -> /\ Fatal("noStagePostConditions",
                                      dictErr(script)["noStagePostConditions"])
                             /\ UNCHANGED <<status, phase, cur, satisfied>>
    /\ UNCHANGED <<fixedVars, files, dirsChecked, canRun, callCount, exitCode, child, childExit,
                   fanVars, barrierVars, dispatched>>

Bump(n) == IF n < MaxPolls THEN n + 1 ELSE n

\* f_blockOnScheduledJobs -> stage.blockOnShellCmd: one count query; the
\* predicate returns True when the output is str_blockUntil, otherwise it
\* sleeps timepoll seconds and asks again
BarrierPoll ==
    /\ Evaluating /\ Pred.fn = "f_blockOnScheduledJobs"
    /\ \E q \in QueryOutcomes :
       LET o == str_blockCondition(q) IN
         /\ lastObs' = o
         /\ queryFailed' = (q.mosq = "fails")
         /\ polls' = Bump(polls)
         /\ IF blockOnShellCmd(o, str_blockUntil)
            THEN /\ IF f_blockOnScheduledJobs THEN PredTrue ELSE PredFalse
                 /\ sleeps' = sleeps
            ELSE /\ sleeps' = Bump(sleeps)
                 /\ UNCHANGED <<status, phase, cur, satisfied, exitVars>>
    /\ UNCHANGED <<fixedVars, files, dirsChecked, canRun, callCount, exitCode, child, childExit,
                   fanVars, dispatched>>

(***************************************************************************)
(* Step 3: the action                                                      *)
(***************************************************************************)
\* Stage_crun: the stage's command is launched and waited for
CommandStart ==
    /\ pc = "run" /\ phase = "action" /\ StageKind(script, Obj) = "crun"
    /\ callCount' = [callCount EXCEPT ![Obj] = @ + 1]
    /\ dispatched' = Append(dispatched, <<Obj, 0>>)
    /\ child' = child + 1
    /\ phase' = "wait"
    /\ polls' = 0 /\ sleeps' = 0 /\ lastObs' = "" /\ queryFailed' = FALSE
    /\ UNCHANGED <<fixedVars, files, exitVars, dirsChecked, canRun, exitCode, status,
                   cur, childExit, fanVars, satisfied>>

\* the command exits: its exit code is recorded, it may have written its output
CommandExit ==
    /\ pc = "run" /\ phase = "wait" /\ StageKind(script, Obj) = "crun"
    /\ \E ec \in ChildExitCodes, made \in SUBSET OutputFile(script, Obj) :
         /\ exitCode' = [exitCode EXCEPT ![Obj] = PyRecord(codeRep, ec)]
         /\ childExit' = ec
         /\ files' = files \cup made
    /\ child' = child - 1
    /\ phase' = "post"
    /\ status' = [status EXCEPT ![Obj] = "PostconditionPending"]
    /\ UNCHANGED <<fixedVars, exitVars, dirsChecked, canRun, callCount, cur, fanVars,
                   barrierVars, dispatched, satisfied>>

\* a callback that clears the runnable flag of the stage it is handed as obj
CallbackEnter_Disables ==
    /\ pc = "run" /\ phase = "action" /\ StageKind(script, Obj) = "callback"
    /\ callCount' = [callCount EXCEPT ![Obj] = @ + 1]
    /\ str_cwd' = cwd
    /\ canRun' = [canRun EXCEPT ![Obj] = FALSE]
    /\ tgt' = 1
    /\ phase' = "loop"
    /\ polls' = 0 /\ sleeps' = 0 /\ lastObs' = "" /\ queryFailed' = FALSE
    /\ UNCHANGED <<fixedVars, files, exitVars, dirsChecked, exitCode, status,
                   cur, child, childExit, cwd, found, dispatched, satisfied>>

\* Stage: the callback is called with subj=args.l_subj, and saves os.getcwd()
CallbackEnter ==
    /\ pc = "run" /\ phase = "action" /\ StageKind(script, Obj) = "callback"
    /\ callCount' = [callCount EXCEPT ![Obj] = @ + 1]
    /\ str_cwd' = cwd
    /\ tgt' = 1
    /\ phase' = "loop"
    /\ polls' = 0 /\ sleeps' = 0 /\ lastObs' = "" /\ queryFailed' = FALSE
    /\ UNCHANGED <<fixedVars, files, exitVars, dirsChecked, canRun, exitCode, status,
                   cur, child, childExit, cwd, found, dispatched, satisfied>>

\* os.chdir(subj) resolves the subject against the current directory; the
\* subjects were checked against the starting directory
ChdirOk(dir) == dir = <<>>

\* the loop body with waitForChild=False: the child is launched and the loop
\* goes on to the next subject without waiting for it
TargetStart_NoWait ==
    /\ pc = "run" /\ phase = "loop" /\ tgt <= nSubj
    /\ dispatched' = Append(dispatched, <<Obj, tgt>>)
    /\ child' = child + 1
    /\ tgt' = tgt + 1
    /\ UNCHANGED <<fixedVars, files, exitVars, dirsChecked, stageVars, cur, phase,
                   cwd, str_cwd, found, childExit, barrierVars, satisfied>>

\* one iteration of "for subj in lst_subj" up to the launch of the child
TargetStart ==
    /\ pc = "run" /\ phase = "loop" /\ tgt <= nSubj
    /\ IF ~ChdirOk(cwd)
       THEN /\ Raise("OSError")
            /\ UNCHANGED <<cwd, found, dispatched, child, phase>>
       ELSE /\ cwd' = <<tgt>>
            /\ \E fnd \in SUBSET SearchedFiles(Obj) :
                 /\ found' = fnd
                 /\ IF FirstMissing(Obj, fnd) # ""
                    THEN /\ Fatal(FirstMissing(Obj, fnd),
                                  dictErr(script)[FirstMissing(Obj, fnd)])
                         /\ UNCHANGED <<dispatched, child, phase>>
                    ELSE /\ dispatched' = Append(dispatched, <<Obj, tgt>>)
                         /\ child' = child + 1
                         /\ phase' = "wait"
                         /\ UNCHANGED exitVars
    /\ UNCHANGED <<fixedVars, files, dirsChecked, stageVars, cur, tgt, str_cwd,
                   childExit, barrierVars, satisfied>>

\* variant: the iteration ends without os.chdir(str_cwd)
TargetExit_NoChdirBack ==
    /\ pc = "run" /\ phase = "wait" /\ StageKind(script, Obj) = "callback"
    /\ child' = child - 1
    /\ \E ec \in ChildExitCodes :
         /\ childExit' = ec
         /\ IF ec # 0 /\ ChecksExitCode(Obj)
            THEN /\ Fatal("stageExec", dictErr(script)["stageExec"])
                 /\ UNCHANGED <<phase, fanVars>>
            ELSE /\ tgt' = NextTarget(tgt)
                 /\ found' = {}
                 /\ phase' = "loop"
                 /\ UNCHANGED <<exitVars, cwd, str_cwd>>
    /\ UNCHANGED <<fixedVars, files, dirsChecked, stageVars, cur, barrierVars,
                   dispatched, satisfied>>

\* the child returns (waitForChild=True); a non-zero exit code is fatal where
\* the callback tests it, otherwise os.chdir(str_cwd) and the next subject
TargetExit ==
    /\ pc = "run" /\ phase = "wait" /\ StageKind(script, Obj) = "callback"
    /\ child' = child - 1
    /\ \E ec \in ChildExitCodes :
         /\ childExit' = ec
         /\ IF ec # 0 /\ ChecksExitCode(Obj)
            THEN /\ Fatal("stageExec", dictErr(script)["stageExec"])
                 /\ UNCHANGED <<phase, fanVars>>
            ELSE /\ cwd' = str_cwd
                 /\ tgt' = NextTarget(tgt)
                 /\ found' = {}
                 /\ phase' = "loop"
                 /\ UNCHANGED <<exitVars, str_cwd>>
    /\ UNCHANGED <<fixedVars, files, dirsChecked, stageVars, cur, barrierVars,
                   dispatched, satisfied>>

\* "return True" of the callback: the postconditions are evaluated next
CallbackReturn ==
    /\ pc = "run" /\ phase = "loop" /\ tgt > nSubj
    /\ phase' = "post"
    /\ status' = [status EXCEPT ![Obj] = "PostconditionPending"]
    /\ UNCHANGED <<fixedVars, files, exitVars, dirsChecked, canRun, callCount, exitCode,
                   cur, child, childExit, fanVars, barrierVars, dispatched, satisfied>>

\* the last stage has been processed: run() returns and the script ends
Finish ==
    /\ pc = "run" /\ phase = "select" /\ ~InRange(script, cur)
    /\ pc' = "done"
    /\ UNCHANGED <<fixedVars, files, exitKind, exitStatus, dirsChecked, stageVars, cur,
                   phase, child, childExit, fanVars, barrierVars, dispatched, satisfied>>

\* the environment: a file is removed while the pipeline runs
EnvDeleteFile ==
    /\ pc = "run"
    /\ \E f \in files : files' = files \ {f}
    /\ UNCHANGED <<fixedVars, exitVars, dirsChecked, stageVars, cur, phase, child, childExit,
                   fanVars, barrierVars, dispatched, satisfied>>

Next ==
    \/ Initialize
    \/ StageSkip
    \/ StageBegin
    \/ EvalNoPredicate
    \/ EvalFileCheck
    \/ EvalExitCode
    \/ BarrierPoll
    \/ CommandStart
    \/ CommandExit
    \/ CallbackEnter
    \/ TargetStart
    \/ TargetExit
    \/ CallbackReturn
    \/ Finish
    \/ EnvDeleteFile

Spec == Init /\ [][Next]_vars

(***************************************************************************)
(* The engine with stages of either fatalConditions flag                   *)
(*                                                                         *)
(* Every stage of the scripts is constructed with fatalConditions=True, so *)
(* the engine's non-fatal branch is never taken in Spec.  Here the         *)
(* single-command pipelines are run with the flag of their stages set      *)
(* either way.                                                             *)
(***************************************************************************)
EngineInit ==
    /\ Constructed
    /\ script # "hypothermia"
    /\ b_fatalConditions \in {[k \in StageIds(script) |-> b] : b \in BOOLEAN}

EngineNext ==
    \/ Initialize
    \/ StageSkip
    \/ StageBegin
    \/ EvalFileCheck
    \/ EvalExitCode
    \/ CommandStart
    \/ CommandExit
    \/ Finish
    \/ EnvDeleteFile

EngineSpec == EngineInit /\ [][EngineNext]_vars

(***************************************************************************)
(* The predicates called on their own                                      *)
(*                                                                         *)
(* f_fileCheck and f_stageShellExitCode are plain functions of their       *)
(* keyword arguments.  The scripts bind them with obj=<stage> and short,   *)
(* non-empty file lists; here they are called once with any list of at     *)
(* most MaxFiles paths over any filesystem, and with or without the obj    *)
(* argument for a stage in any state.                                      *)
(***************************************************************************)
Paths == {"input", "mask", "B0Mask"}
PathLists == UNION {[1..n -> Paths] : n \in 0..MaxFiles}

\* callCount() and exitCode() of the stage passed as obj: not called yet, or
\* called once with the exit code recorded in either representation
StageStates ==
    {[count |-> 0, code |-> PyNone]} \cup
    {[count |-> 1, code |-> c] : c \in {PyStr(0), PyStr(1), PyInt(0), PyInt(1)}}

PredicateInit ==
    /\ script \in Scripts \ {"hypothermia"}
    /\ \/ /\ call \in {[fn |-> "f_fileCheck", bound |-> TRUE, files |-> l] :
                          l \in PathLists}
          /\ files \in SUBSET Paths
          /\ callCount = [k \in StageIds(script) |-> 0]
          /\ exitCode = [k \in StageIds(script) |-> PyNone]
       \/ /\ call \in {[fn |-> "f_stageShellExitCode", bound |-> b, files |-> <<>>] :
                          b \in BOOLEAN}
          /\ files = {}
          /\ \E st \in StageStates :
               /\ callCount = [k \in StageIds(script) |-> st.count]
               /\ exitCode = [k \in StageIds(script) |-> st.code]
    /\ ret = "pending"
    /\ pc = "predicate"
    /\ stageslist = <<>> /\ envFS = TRUE /\ nSubj = 0 /\ subjDirs = <<>>
    /\ found = {} /\ codeRep = "str" /\ exitKind = "" /\ exitStatus = 0
    /\ dirsChecked = 0
    /\ canRun = stages_canRun(script, FALSE)
    /\ b_fatalConditions = [k \in StageIds(script) |-> fatalConditions(script, k)]
    /\ status = [k \in StageIds(script) |-> "Pending"]
    /\ cur = 0 /\ phase = "select" /\ tgt = 1 /\ child = 0 /\ childExit = 0
    /\ cwd = <<>> /\ str_cwd = <<>>
    /\ polls = 0 /\ sleeps = 0 /\ lastObs = "" /\ queryFailed = FALSE
    /\ dispatched = <<>> /\ satisfied = {}

\* what a call leaves alone: the predicates only read
predFrame == <<cfgVars, b_fatalConditions, call, files, dirsChecked, stageVars, cur, phase,
               child, childExit,
               fanVars, barrierVars, dispatched, satisfied>>

\* f_fileCheck(obj=stage, files=l_file) returns
FileCheckCall ==
    /\ pc = "predicate" /\ ret = "pending" /\ call.fn = "f_fileCheck"
    /\ ret' = IF f_fileCheck(call.files, files) THEN "True" ELSE "False"
    /\ UNCHANGED <<predFrame, exitVars>>

\* f_stageShellExitCode(obj=stage) or f_stageShellExitCode(): returns, or ends
\* the process through error.fatal
ExitCodeCall ==
    /\ pc = "predicate" /\ ret = "pending" /\ call.fn = "f_stageShellExitCode"
    /\ LET r == f_stageShellExitCode(call.bound, callCount[0], exitCode[0]) IN
         IF r = "fatal"
         THEN /\ Fatal("noStagePostConditions", dictErr(script)["noStagePostConditions"])
              /\ ret' = ret
         ELSE /\ ret' = r
              /\ UNCHANGED exitVars
    /\ UNCHANGED predFrame

PredicateNext == FileCheckCall \/ ExitCodeCall

PredicateSpec == PredicateInit /\ [][PredicateNext]_vars

(***************************************************************************)
(* Properties                                                              *)
(***************************************************************************)
\* the digit of pipeline position i occurs in the selection string
Selected(i) ==
    \E n \in 1..Len(stageslist) :
        IsDigit(stageslist[n]) /\ DigitVal(stageslist[n]) = i

\* the targets stage k has launched a process for, in launch order
RECURSIVE DispatchesFrom(_, _)
DispatchesFrom(k, log) ==
    IF log = <<>> THEN <<>>
    ELSE IF Head(log)[1] = k THEN <<Head(log)[2]>> \o DispatchesFrom(k, Tail(log))
    ELSE DispatchesFrom(k, Tail(log))

DispatchesOf(k) == DispatchesFrom(k, dispatched)

\* a precondition of stage k has evaluated false
PreconditionFalse(k) == status[k] \in {"PreconditionFailed", "SkippedWithWarning"}

\* C1: a stage whose index is not in the selection string never has its action
\* invoked: its callCount is 0 and no process is launched for it, in every
\* reachable state, whatever its preconditions would have evaluated to.
C1_UnselectedNeverRuns ==
    \A k \in StageIds(script) :
        ~Selected(k) => /\ callCount[k] = 0
                        /\ DispatchesOf(k) = <<>>
                        /\ status[k] \in {"Pending", "Skipped"}

\* an unselected stage whose precondition holds was passed over while its
\* selected neighbours ran
C1_Witness ==
    /\ script = "masconorm" /\ pc = "done"
    /\ ~Selected(1) /\ "B0Mask" \in files
    /\ status[1] = "Skipped" /\ callCount[1] = 0
    /\ callCount[0] = 1 /\ callCount[2] = 1

\* C2: when a precondition of a stage evaluates false (every stage of the
\* scripts is built with fatalConditions = True) the pipeline halts before the
\* action: nothing is launched for that stage or any later one, their callCount
\* stays 0, and the earlier selected stages are complete with their callCount.
C2_FatalPreconditionHalts ==
    \A k \in StageIds(script) :
        PreconditionFalse(k) =>
            /\ pc = "exit" /\ child = 0
            /\ \A j \in StageIds(script) :
                 /\ j >= k => callCount[j] = 0 /\ DispatchesOf(j) = <<>>
                 /\ (j < k /\ Selected(j)) => status[j] = "Complete" /\ callCount[j] = 1

\* masconorm: the file the first stage writes is missing when the second stage
\* checks it, and the third stage, also selected, never runs
C2_Witness ==
    /\ script = "masconorm" /\ pc = "exit"
    /\ status[1] = "PreconditionFailed" /\ "B0Mask" \notin files
    /\ callCount[0] = 1 /\ status[0] = "Complete"
    /\ callCount[1] = 0 /\ callCount[2] = 0 /\ Selected(2)

\* C3: stages execute in stage_add order and targets in list order: the log of
\* launches is strictly increasing in (stage, target), and while a stage is
\* past its preconditions every selected earlier stage is complete.
C3_DeclarationOrder ==
    /\ \A p, q \in DOMAIN dispatched :
         p < q => \/ dispatched[p][1] < dispatched[q][1]
                  \/ /\ dispatched[p][1] = dispatched[q][1]
                     /\ dispatched[p][2] < dispatched[q][2]
    /\ \A i, j \in StageIds(script) :
         (i < j /\ Selected(i) /\ callCount[j] > 0) => status[i] = "Complete"

\* hypothermia: two stages have each launched both targets
C3_Witness ==
    /\ script = "hypothermia" /\ nSubj = 2
    /\ dispatched = <<<<0, 1>>, <<0, 2>>, <<1, 1>>, <<1, 2>>>>
    /\ status[0] = "Complete"

\* the barrier predicate is being evaluated (as a pre- or a postcondition)
InBarrier == Evaluating /\ Pred.fn = "f_blockOnScheduledJobs"

\* the evaluation that was blocking is still the one blocking after the step
SameBarrier == InBarrier' /\ cur' = cur /\ phase' = phase

\* C4: the barrier never returns on a poll that observed anything but the
\* target "0": every step that ends a barrier evaluation is a poll whose
\* observation is exactly "0".
C4_ReturnOnlyOnTarget ==
    [][(InBarrier /\ ~SameBarrier) =>
           (lastObs' = "0" /\ polls' >= 1 /\ pc' = "run")]_vars

\* a barrier has returned on its second poll, after one sleep
C4_Witness ==
    /\ script = "hypothermia" /\ pc = "run" /\ phase = "action"
    /\ lastObs = "0" /\ polls = 2 /\ sleeps = 1

\* C5: the barrier has no timeout: a poll that observes the target ends the
\* evaluation with success in that very step, a poll that observes anything
\* else leaves the same evaluation blocking (the process neither exits nor
\* moves to a later stage), and another poll is always possible.
C5_NoTimeout ==
    /\ [][InBarrier => /\ pc' = "run"
                       /\ (lastObs' = "0") <=> ~SameBarrier
                       /\ ~SameBarrier => (phase' = IF phase = "pre" THEN "action"
                                                                   ELSE "select")]_vars
    /\ [](InBarrier => ENABLED BarrierPoll)

\* a barrier still blocking after MaxPolls polls that never saw the target
C5_Witness ==
    /\ InBarrier /\ polls = MaxPolls /\ sleeps = MaxPolls /\ lastObs = "3"

\* C6: a fan-out stage that reaches its postcondition barrier has launched
\* exactly one process per target, in list order, before the first poll; until
\* then its launches are a prefix of the target list.
C6_FanOutBeforeBarrier ==
    script = "hypothermia" =>
        \A k \in StageIds(script) :
            /\ \E m \in 0..nSubj : DispatchesOf(k) = [i \in 1..m |-> i]
            /\ status[k] \in {"PostconditionPending", "Complete"} =>
                   DispatchesOf(k) = [i \in 1..nSubj |-> i]

\* the first poll of a postcondition barrier over two targets has been made
C6_Witness ==
    /\ script = "hypothermia" /\ nSubj = 2 /\ pc = "run" /\ phase = "post"
    /\ polls = 1 /\ lastObs = "1"
    /\ DispatchesOf(Obj) = <<1, 2>>

\* C7: stage1, stage2 and stage3 of hypothermia take the postcondition of their
\* predecessor as precondition: the action of such a stage is never invoked
\* before that binding has evaluated true.
C7_ChainedPrecondition ==
    script = "hypothermia" =>
        \A b \in StageIds(script) \ {0} :
            callCount[b] > 0 => def_postconditions(script, b - 1) \in satisfied

\* stage1 runs without stage0 selected, after the 'bet' barrier returned
C7_Witness ==
    /\ script = "hypothermia" /\ ~Selected(0) /\ callCount[1] = 1
    /\ def_postconditions(script, 0) \in satisfied
    /\ status[0] = "Skipped"

C9_SingleCommandOnce ==
    script # "hypothermia" =>
        /\ \A k \in StageIds(script) :
             /\ callCount[k] <= 1
             /\ Len(DispatchesOf(k)) = callCount[k]
             /\ status[k] = "Complete" => callCount[k] = 1 /\ exitCode[k].val = 0
        /\ (pc = "run" /\ phase = "post") =>
               /\ callCount[Obj] = 1
               /\ exitCode[Obj].rep # "none"
               /\ exitCode[Obj].val = childExit

\* coreg: both checked files present, the command ran once and exited with 0
C9_Witness ==
    /\ script = "coreg" /\ pc = "done"
    /\ {"input", "ref"} \subseteq files
    /\ status[0] = "Complete" /\ callCount[0] = 1
    /\ exitCode[0] = PyStr(0)

\* C10: when the file check of a stage fails the process ends with exit code
\* 10 ('inputFileNotFound'), which no other kind of the script's table has,
\* and the stage's command was never run.
C10_MissingInputExit ==
    script # "hypothermia" =>
        \A k \in StageIds(script) :
            PreconditionFalse(k) =>
                /\ pc = "exit"
                /\ exitKind = "inputFileNotFound" /\ exitStatus = 10
                /\ \A key \in DOMAIN dictErr(script) \ {"inputFileNotFound"} :
                       dictErr(script)[key] # exitStatus
                /\ callCount[k] = 0 /\ DispatchesOf(k) = <<>>

\* bet: the input volume is missing when the selected stage checks it
C10_Witness ==
    /\ script = "bet" /\ pc = "exit" /\ Selected(0)
    /\ "input" \notin files /\ status[0] = "PreconditionFailed"
    /\ exitStatus = 10 /\ callCount[0] = 0

\* C11: the barrier returns on the first poll that observes the target "0":
\* while it blocks no poll has seen the target and every poll was followed by
\* one sleep; the step that ends the evaluation is the poll that sees "0", it
\* is poll number k = polls + 1 and k - 1 sleeps came before it (none when it
\* is the very first poll).  The counts are exact up to MaxPolls polls.
C11_ReturnOnFirstTarget ==
    /\ [](InBarrier => /\ lastObs # "0"
                       /\ (polls < MaxPolls => sleeps = polls))
    /\ [][(InBarrier /\ ~SameBarrier /\ polls < MaxPolls) =>
             /\ lastObs' = "0"
             /\ polls' = polls + 1
             /\ sleeps' = polls' - 1]_vars

\* a barrier has returned on its fourth poll after three sleeps, as for the
\* observation sequence 3, 3, 1, 0
C11_Witness ==
    /\ script = "hypothermia" /\ pc = "run" /\ phase = "action"
    /\ lastObs = "0" /\ polls = 4 /\ sleeps = 3

\* C12: once initialize() has set the stages from a selection string of stage
\* digits (the loop did not raise), stage i is runnable exactly when the digit
\* i occurs in the string, whatever the flags were before: every stage absent
\* from the string is disabled.
C12_RunnableIffSelected ==
    pc \in {"run", "done", "exit"} =>
        \A k \in StageIds(script) : canRun[k] <=> Selected(k)

\* "012" given to the four-stage pipeline: stages 0, 1, 2 enabled, stage 3 not
C12_Witness ==
    /\ script = "masconorm" /\ pc = "run"
    /\ stageslist = <<"0", "1", "2">>
    /\ canRun = [k \in 0..3 |-> k \in {0, 1, 2}]

\* C13: the selection string "all" is accepted: initialize() gets past the
\* stage loop without raising and leaves every stage of the pipeline enabled.
C13_KeywordAllEnablesAll ==
    (script = "hypothermia" /\ stageslist = KeywordAll /\ pc # "initialize") =>
        /\ pc # "crashed"
        /\ \A k \in StageIds(script) : canRun[k]

\* the kind -> code mapping of a table gives no two kinds the same code
Injective(t) == \A a, b \in DOMAIN t : t[a] = t[b] => a = b

\* the kinds of the set that several scripts define have one code everywhere
SameCodeAcross(kinds) ==
    \A s1, s2 \in Scripts :
        \A k \in kinds \cap DOMAIN dictErr(s1) \cap DOMAIN dictErr(s2) :
            dictErr(s1)[k] = dictErr(s2)[k]

AllKinds == UNION {DOMAIN dictErr(s) : s \in Scripts}

\* a process ended by a fatal error of a kind of its table exits with the
\* code the table gives that kind, and with no other kind's code
ExitsWithOwnCode ==
    (pc = "exit" /\ exitKind \in DOMAIN dictErr(script)) =>
        /\ exitStatus = dictErr(script)[exitKind]
        /\ \A k \in DOMAIN dictErr(script) :
               dictErr(script)[k] = exitStatus => k = exitKind

\* C14 as stated: every table is injective, a fatal exit carries the code of
\* its kind, and every kind name has the same code in every script that
\* defines it.
C14_Original ==
    /\ \A s \in Scripts : Injective(dictErr(s))
    /\ ExitsWithOwnCode
    /\ SameCodeAcross(AllKinds)

\* C14, amended: every table is injective, a fatal exit carries the code of
\* its kind, and every kind name other than 'Load' has the same code in every
\* script that defines it; 'Load' is 20 in hypothermia and 14 in the others.
C14_DistinctExitCodes ==
    /\ \A s \in Scripts : Injective(dictErr(s))
    /\ ExitsWithOwnCode
    /\ SameCodeAcross(AllKinds \ {"Load"})
    /\ dictErr("hypothermia")["Load"] = 20
    /\ \A s \in Scripts \ {"hypothermia"} : dictErr(s)["Load"] = 14

\* the top-level pipeline has ended on a missing ASL volume with code 16
C14_Witness ==
    /\ script = "hypothermia" /\ pc = "exit"
    /\ exitKind = "noASL" /\ exitStatus = 16

\* C15: in each of the four fan-out stages of hypothermia a dispatch that
\* returns non-zero ends the process at once with stageExec (30): a state in
\* which the last dispatch returned non-zero is an exit state, so no dispatch
\* follows it.
C15_DispatchFailureFatal ==
    (script = "hypothermia" /\ childExit # 0) =>
        /\ pc = "exit"
        /\ exitKind = "stageExec"
        /\ exitStatus = dictErr_hypothermia["stageExec"]

\* C16: in the single-command pipelines (every stage fatal, postcondition
\* f_stageShellExitCode) a command that exited non-zero leaves its stage's
\* postcondition unsatisfied and the stage Failed as soon as the predicate is
\* evaluated, which ends the process: the pipeline never moves past that
\* stage, so no later stage is begun, has a precondition evaluated or has its
\* command launched.
C16_NonZeroExitAborts ==
    script # "hypothermia" =>
        \A k \in StageIds(script) :
            (exitCode[k].rep # "none" /\ exitCode[k].val # 0) =>
                /\ cur = k
                /\ def_postconditions(script, k) \notin satisfied
                /\ status[k] \in {"PostconditionPending", "Failed"}
                /\ (status[k] = "Failed") <=> (pc = "exit")
                /\ pc \in {"run", "exit"}
                /\ \A j \in StageIds(script) :
                       j > k => /\ status[j] = "Pending"
                                /\ callCount[j] = 0
                                /\ def_preconditions(script, j) \notin satisfied

\* the first command of masconorm exited with 1 although it wrote its output:
\* the process has ended with the second, selected stage untouched
C16_Witness ==
    /\ script = "masconorm" /\ pc = "exit" /\ exitKind = "postconditions"
    /\ exitCode[0].val = 1 /\ status[0] = "Failed"
    /\ "B0Mask" \in files
    /\ Selected(1) /\ status[1] = "Pending" /\ callCount[1] = 0

\* C17: the exit-code postcondition of a stage that was passed over, so that
\* its action never ran (callCount 0), evaluates false.
C17_SkippedReportsUnsatisfied ==
    script # "hypothermia" =>
        \A k \in StageIds(script) :
            (status[k] \in {"Skipped", "SkippedWithWarning"} /\ callCount[k] = 0) =>
                f_stageShellExitCode(TRUE, callCount[k], exitCode[k]) = "False"

\* C18: the exit-code postcondition of a stage whose command ran and exited
\* with zero is true, whether the exit code is recorded as the string "0" or
\* as the integer 0.
C18_ZeroIsSuccessEitherType ==
    script # "hypothermia" =>
        \A k \in StageIds(script) :
            (callCount[k] > 0 /\ exitCode[k] \in {PyStr(0), PyInt(0)}) =>
                f_stageShellExitCode(TRUE, callCount[k], exitCode[k]) = "True"

\* no stage has been begun: no predicate evaluated, no poll, nothing launched
NothingRan ==
    /\ \A k \in StageIds(script) : status[k] = "Pending" /\ callCount[k] = 0
    /\ satisfied = {} /\ dispatched = <<>> /\ child = 0
    /\ polls = 0 /\ cur = 0 /\ phase = "select"

\* C19: with FREESURFER_HOME absent, initialize() of hypothermia ends the
\* process with noFreeSurferEnv (11) for every stage selection, before any
\* precondition is evaluated or any action dispatched.
C19_MissingEnvExits11 ==
    (script = "hypothermia" /\ ~envFS /\ pc # "initialize") =>
        /\ pc = "exit"
        /\ exitKind = "noFreeSurferEnv"
        /\ exitStatus = 11
        /\ NothingRan

\* C20: when a named subject directory does not exist, initialize() of
\* hypothermia ends the process with subjectDirnotExist (13) at the first
\* missing directory in list order: the directories before it exist, none
\* after it is examined, and no stage has been begun.  The environment test
\* comes before the directory loop in initialize(), so the statement is taken
\* with FREESURFER_HOME set.
C20_FirstMissingDirExits13 ==
    (/\ script = "hypothermia" /\ pc # "initialize" /\ envFS
     /\ \E i \in 1..nSubj : ~subjDirs[i]) =>
        /\ pc = "exit"
        /\ exitKind = "subjectDirnotExist"
        /\ exitStatus = 13
        /\ dirsChecked \in 1..nSubj
        /\ ~subjDirs[dirsChecked]
        /\ \A j \in 1..(dirsChecked - 1) : subjDirs[j]
        /\ NothingRan

C22_StageNamesUnique ==
    \A j, k \in StageIds(script) :
        StageName(script, stage_get(script, j)) = StageName(script, stage_get(script, k))
            => j = k

\* C23: a count query that failed, or whose output is no number, counts as
\* "not yet zero": after such a query the same barrier evaluation is still
\* blocking and the process still runs.
C23_BadQueryRetries ==
    (queryFailed \/ lastObs = "garbage") => (InBarrier /\ pc = "run")

\* C24: f_fileCheck returns true exactly when every path of its list exists
\* when it is called: true for the empty list, false as soon as one path is
\* missing, at whatever position.
C24_FileCheckIffAllExist ==
    (call.fn = "f_fileCheck" /\ ret # "pending") =>
        /\ ret \in {"True", "False"}
        /\ (ret = "True") <=> (\A i \in 1..Len(call.files) : call.files[i] \in files)
        /\ call.files = <<>> => ret = "True"

\* the first path of the list is missing, the last one exists: false
C24_Witness ==
    /\ call.fn = "f_fileCheck" /\ call.files = <<"input", "mask">>
    /\ "input" \notin files /\ "mask" \in files
    /\ ret = "False"

\* the stages whose action or postcondition is in progress
InProgress == {k \in StageIds(script) : status[k] \in {"Running", "PostconditionPending"}}

\* C25: the orchestrator is one sequential thread: at most one stage is
\* Running or PostconditionPending, and at most one launched child process is
\* unfinished; a child is unfinished exactly while the orchestrator waits for
\* it, so the launches so far are those of finished children plus at most the
\* one being waited for, and the next target is launched only after it exits.
C25_SingleThread ==
    /\ Cardinality(InProgress) <= 1
    /\ child \in {0, 1}
    /\ (child = 1) <=> (pc = "run" /\ phase = "wait")
    /\ (script = "hypothermia" /\ pc = "run" /\ phase = "wait") =>
           /\ dispatched # <<>>
           /\ dispatched[Len(dispatched)] = <<Obj, tgt>>
    /\ (script = "hypothermia" /\ pc = "run" /\ phase = "loop") =>
           Len(DispatchesOf(Obj)) = tgt - 1

\* the second subject's process is running after the first one's has exited
C25_Witness ==
    /\ script = "hypothermia" /\ pc = "run" /\ phase = "wait"
    /\ tgt = 2 /\ child = 1
    /\ DispatchesOf(Obj) = <<1, 2>>

\* the precondition being evaluated is a file check with a path missing
PreconditionFails ==
    /\ pc = "run" /\ phase = "pre" /\ Pred.fn = "f_fileCheck"
    /\ \E i \in 1..Len(Pred.files) : Pred.files[i] \notin files

\* C27: when the precondition of a stage with fatalConditions = false fails,
\* the evaluation ends with the stage marked skipped, its action not invoked
\* (callCount unchanged at 0, nothing launched) and the pipeline at the next
\* stage, the process still running; such a stage never gets a callCount.
C27_NonFatalSkip ==
    /\ [][(PreconditionFails /\ ~b_fatalConditions[Obj] /\ phase' # phase) =>
             /\ status' = [status EXCEPT ![Obj] = "SkippedWithWarning"]
             /\ callCount[Obj] = 0 /\ callCount' = callCount
             /\ dispatched' = dispatched
             /\ cur' = cur + 1 /\ phase' = "select"
             /\ pc' = "run"]_vars
    /\ [](\A k \in StageIds(script) :
             (~b_fatalConditions[k] /\ status[k] = "SkippedWithWarning"
              /\ exitCode[k] = PyNone) =>
                 (callCount[k] = 0 /\ DispatchesOf(k) = <<>> /\ cur > k
                  /\ pc \in {"run", "done"}))

\* the first stage of masconorm was skipped for a missing input and the
\* second stage has run to completion
C27_Witness ==
    /\ script = "masconorm" /\ ~b_fatalConditions[0]
    /\ status[0] = "SkippedWithWarning" /\ callCount[0] = 0
    /\ status[1] = "Complete" /\ callCount[1] = 1

\* C28: no step taken while a precondition or postcondition is being
\* evaluated (file check, exit-code check, barrier poll) changes the
\* callCount, exitCode or canRun of any stage.
C28_PredicatesReadOnly ==
    [][Evaluating =>
          (callCount' = callCount /\ exitCode' = exitCode /\ canRun' = canRun)]_vars

\* the exit-code postcondition of bet's stage has been evaluated: the stage is
\* Complete and its counters are what the action left
C28_Witness ==
    /\ script = "bet" /\ pc = "done" /\ status[0] = "Complete"
    /\ callCount[0] = 1 /\ exitCode[0] = PyStr(0) /\ canRun[0]
    /\ def_preconditions(script, 0) \in satisfied
    /\ def_postconditions(script, 0) \in satisfied

\* C29: the selection is resolved by initialize() before any stage is
\* examined and is frozen from then on: while initialize() has not returned no
\* stage has been begun, and no later step changes a canRun flag; the stages
\* are examined at their pipeline positions, one after the other.
C29_SelectionFrozen ==
    /\ [](pc = "initialize" => NothingRan)
    /\ [][pc # "initialize" =>
             /\ canRun' = canRun
             /\ stageslist' = stageslist
             /\ cur' \in {cur, cur + 1}]_vars

\* the whole pipeline of hypothermia has been passed with stage 0 selected
\* alone: the flags at the end are those initialize() set
C29_Witness ==
    /\ script = "hypothermia" /\ pc = "done" /\ stageslist = <<"0">>
    /\ canRun = [k \in 0..3 |-> k = 0]
    /\ status[0] = "Complete" /\ status[3] = "Skipped"

\* C30: f_blockOnScheduledJobs blocks or returns true, never false: a stage of
\* hypothermia, whose only postcondition is this barrier, is never Failed or
\* skipped for a false predicate, the process never ends on a false
\* precondition or postcondition, and a stage that is PostconditionPending
\* stays so or becomes Complete.
C30_BarrierNeverFalse ==
    /\ [](script = "hypothermia" =>
             /\ \A k \in StageIds(script) :
                    status[k] \notin {"Failed", "PreconditionFailed", "SkippedWithWarning"}
             /\ exitKind \notin {"postconditions", "preconditions"})
    /\ [][script = "hypothermia" =>
             \A k \in StageIds(script) :
                 status[k] = "PostconditionPending" =>
                     status'[k] \in {"PostconditionPending", "Complete"}]_vars

\* a stage of hypothermia became Complete after its barrier had blocked twice
C30_Witness ==
    /\ script = "hypothermia" /\ pc = "run" /\ phase = "select" /\ cur = 1
    /\ status[0] = "Complete" /\ def_postconditions(script, 0) \in satisfied
    /\ lastObs = "0" /\ polls = 3 /\ sleeps = 2

MissingAtTarget ==
    /\ script = "hypothermia" /\ pc # "initialize"
    /\ phase \in {"loop", "wait"} /\ cwd = <<tgt>>
    /\ \/ cur = 0 /\ "b0" \notin found
       \/ cur \in {1, 2} /\ ("b0" \notin found \/ "asl" \notin found)
       \/ cur = 3 /\ "adc" \notin found

\* the error key and exit code the missing file of the current target calls for
ExpectedFileError ==
    IF cur \in {0, 1, 2} /\ "b0" \notin found THEN [key |-> "noB0", code |-> 14]
    ELSE IF cur \in {1, 2} THEN [key |-> "noASL", code |-> 16]
    ELSE [key |-> "noADC", code |-> 15]

C32_MissingFileStopsFanOut ==
    /\ [](MissingAtTarget =>
            /\ pc = "exit"
            /\ exitKind = ExpectedFileError.key
            /\ exitStatus = ExpectedFileError.code
            /\ DispatchesOf(cur) = [i \in 1..(tgt - 1) |-> i]
            /\ child = 0)
    /\ [](script = "hypothermia" /\ exitKind \in {"noB0", "noASL", "noADC"} =>
            MissingAtTarget)
    /\ [][pc = "exit" => dispatched' = dispatched /\ pc' = "exit"]_vars

C32_Witness ==
    /\ MissingAtTarget /\ nSubj = 2 /\ tgt = 2 /\ cur = 1
    /\ found = {"b0"} /\ exitKind = "noASL" /\ exitStatus = 16
    /\ DispatchesOf(1) = <<1>> /\ pc = "exit"

(***************************************************************************)
(* C33: stage selection depends only on the set of characters of the       *)
(* selection string: every string with the same set of digits as the one   *)
(* given (any order, any repetition) makes initialize() raise or not raise *)
(* alike and, when it does not raise, leaves the same stages runnable; the *)
(* stages then run in ascending pipeline position, each selected stage at  *)
(* most once, whatever the order of the characters.                        *)
(***************************************************************************)
\* the set of characters of a selection string
DigitSet(str) == {str[i] : i \in 1..Len(str)}

\* the selection strings with the same characters as the one given
SameDigits == {t \in SelStrings : DigitSet(t) = DigitSet(stageslist)}

C33_SelectionBySet ==
    /\ [](pc # "initialize" =>
            \A t \in SameDigits :
                LET r == SetStages(script, t, canRun) IN
                    /\ r.raised <=> (pc = "crashed" /\ exitKind = "uncaught")
                    /\ ~r.raised => r.canRun = canRun)
    /\ [](/\ \A p, q \in DOMAIN dispatched :
                p < q => dispatched[p][1] <= dispatched[q][1]
          /\ \A p \in DOMAIN dispatched : Selected(dispatched[p][1])
          /\ \A k \in StageIds(script) : callCount[k] <= 1)
    /\ [][cur' # cur => cur' = cur + 1]_vars

\* "10": stage 0 has run before stage 1
C33_Witness ==
    /\ script = "hypothermia" /\ stageslist = <<"1", "0">> /\ nSubj = 1
    /\ canRun = [k \in 0..3 |-> k \in {0, 1}]
    /\ dispatched = <<<<0, 1>>, <<1, 1>>>>
    /\ Cardinality(SameDigits) > 1

(***************************************************************************)
(* C34: initialize() checks in a fixed order and stops at the first        *)
(* failure: the stage selection, then FREESURFER_HOME, then the subject    *)
(* directories in list order. With the variable unset and a subject        *)
(* directory missing the process ends with 11 (noFreeSurferEnv), never 13, *)
(* and no directory has been examined.                                     *)
(***************************************************************************)
\* a character of the selection string is not the position of a stage
SelectionRaises ==
    \E i \in 1..Len(stageslist) :
        ~IsDigit(stageslist[i]) \/ DigitVal(stageslist[i]) >= NStages(script)

SomeDirMissing == \E i \in 1..nSubj : ~subjDirs[i]

C34_InitOrder ==
    /\ (pc # "initialize" /\ SelectionRaises =>
            pc = "crashed" /\ exitStatus = 1 /\ dirsChecked = 0)
    /\ (pc # "initialize" /\ ~SelectionRaises /\ ~envFS =>
            /\ pc = "exit" /\ exitKind = "noFreeSurferEnv" /\ exitStatus = 11
            /\ dirsChecked = 0)
    /\ (pc # "initialize" /\ ~SelectionRaises /\ envFS /\ SomeDirMissing =>
            /\ pc = "exit" /\ exitKind = "subjectDirnotExist" /\ exitStatus = 13
            /\ dirsChecked \in 1..nSubj /\ ~subjDirs[dirsChecked]
            /\ \A j \in 1..(dirsChecked - 1) : subjDirs[j])
    /\ (pc # "initialize" /\ ~SelectionRaises /\ envFS /\ ~SomeDirMissing =>
            dirsChecked = nSubj /\ exitKind \notin {"noFreeSurferEnv", "subjectDirnotExist"})
    /\ (~envFS /\ SomeDirMissing => exitStatus # 13 /\ dirsChecked = 0)

\* both are missing and the process has ended with 11
C34_Witness ==
    /\ script = "hypothermia" /\ ~envFS /\ nSubj = 2 /\ ~subjDirs[1] /\ ~subjDirs[2]
    /\ ~SelectionRaises /\ stageslist # <<>>
    /\ pc = "exit" /\ exitStatus = 11 /\ dirsChecked = 0

(***************************************************************************)
(* Termination of the single-command pipelines (bet, coreg, masconorm)     *)
(***************************************************************************)
\* the steps the orchestrator's one thread takes by itself
EngineStep ==
    \/ Initialize
    \/ StageSkip
    \/ StageBegin
    \/ EvalFileCheck
    \/ EvalExitCode
    \/ CommandStart
    \/ Finish

\* The thread always takes its next step, and every launched command exits;
\* nothing is assumed of the environment's file removals.
\* the selection strings with their digits in strictly ascending order: the
\* loop of initialize() only sets flags, so one string stands for every
\* string with the same digits
AscendingSel(str) ==
    \/ str = KeywordAll
    \/ \A i \in 1..(Len(str) - 1) : DigitVal(str[i]) < DigitVal(str[i + 1])

TerminationInit == EngineInit /\ AscendingSel(stageslist)

TerminationSpec ==
    /\ TerminationInit
    /\ [][EngineNext]_vars
    /\ WF_vars(EngineStep)
    /\ WF_vars(CommandExit)

\* the process has ended: normally after the last stage, or by a fatal exit
Ended == pc \in {"done", "exit"}

(***************************************************************************)
(* C35: a pipeline whose predicates are all file checks and exit code      *)
(* tests terminates if every launched command terminates: once initialize  *)
(* has returned, the run reaches normal completion or a fatal exit, and    *)
(* stays there, with the action of every stage begun at most once.         *)
(***************************************************************************)
C35_NonBlockingTerminates ==
    /\ (pc = "run") ~> Ended
    /\ <>(pc # "initialize")
    /\ [](Ended => [](Ended /\ child = 0))
    /\ [](\A k \in StageIds(script) : callCount[k] <= 1)

\* "012" given to masconorm: three stages have each run once, the pipeline is done
C35_Witness ==
    /\ script = "masconorm" /\ pc = "done" /\ stageslist = <<"0", "1", "2">>
    /\ \A k \in 0..2 : callCount[k] = 1 /\ status[k] = "Complete"
    /\ status[3] = "Skipped" /\ Len(dispatched) = 3

(***************************************************************************)
(* C36: each fan-out callback of hypothermia restores the working          *)
(* directory after every target it has processed: at the start of each     *)
(* iteration and when the callback returns the current directory is the    *)
(* one saved on entry, which is the starting directory, so every subject   *)
(* is resolved against the same base and no os.chdir(subj) fails; the      *)
(* directory is a subject's only while that subject is being processed.    *)
(***************************************************************************)
C36_CwdRestored ==
    script = "hypothermia" =>
        /\ (pc = "run" /\ phase \in {"loop", "post"}) => (cwd = str_cwd /\ cwd = <<>>)
        /\ (pc \in {"run", "done"} /\ phase # "wait") => cwd = <<>>
        /\ (pc = "run" /\ phase = "wait") => (cwd = <<tgt>> /\ str_cwd = <<>>)
        /\ exitKind # "OSError"
        /\ \A p \in DOMAIN dispatched : dispatched[p][2] \in 1..nSubj

\* the second iteration of a callback is about to start, the first target done
C36_Witness ==
    /\ script = "hypothermia" /\ pc = "run" /\ phase = "loop"
    /\ nSubj = 2 /\ tgt = 2 /\ cur = 1 /\ DispatchesOf(1) = <<1>>
    /\ cwd = str_cwd /\ childExit = 0

====
